---- MODULE Spec2Model ----
\* Student CRUD backend (backend/main.go): two HTTP handlers over one
\* PostgreSQL table.  Handlers run concurrently, but each issues at most one
\* SQL statement, which the store executes atomically, and they share nothing
\* else: one action models one whole request.  The store's behaviour is that
\* of the table createTable declares (SERIAL id, VARCHAR(100) NOT NULL
\* columns, UNIQUE email, DATE DEFAULT CURRENT_DATE).
EXTENDS Integers, Sequences, FiniteSets, TLC

VARIABLES
    students,    \* the rows of table students: [id, first_name, last_name, email, enrollment_date]
    seq,         \* the next value of the SERIAL sequence behind column id
    req,         \* the request served by the latest step
    resp,        \* the response written for it
    dbop,        \* the SQL statement that request sent to the store
    createdIds,  \* history: the ids returned by successful creates, in order
    deleted      \* history: the ids removed by successful deletes

vars == <<students, seq, req, resp, dbop, createdIds, deleted>>

-----------------------------------------------------------------------------
\* Bounds of the model.

\* The sequence hands out the ids 1 .. MaxSeq-1.
MaxSeq == 3
\* CURRENT_DATE, read by the store at each insert, is one of the days 1 .. MaxDay.
MaxDay == 2

-----------------------------------------------------------------------------
\* Program constants.

\* VARCHAR(100) of first_name, last_name and email.
VarcharLen == 100

-----------------------------------------------------------------------------
\* Strings are tuples of one-character strings.

Rep(c, n) == [i \in 1..n |-> c]

DigitChars == <<"0", "1", "2", "3", "4", "5", "6", "7", "8", "9">>

IsDigit(c) == \E i \in 1..10 : DigitChars[i] = c

DigitVal(c) == (CHOOSE i \in 1..10 : DigitChars[i] = c) - 1

\* Magnitudes are digit tuples without leading zeros; they are compared as
\* numbers without being turned into numbers, since 2^31 and 2^63 exceed
\* TLC's integers.
RECURSIVE StripZeros(_)
StripZeros(ds) ==
    IF Len(ds) > 1 /\ ds[1] = "0" THEN StripZeros(Tail(ds)) ELSE ds

LeqMag(a, b) ==
    \/ Len(a) < Len(b)
    \/ /\ Len(a) = Len(b)
       /\ \/ a = b
          \/ \E i \in 1..Len(a) :
                /\ \A j \in 1..(i-1) : a[j] = b[j]
                /\ DigitVal(a[i]) < DigitVal(b[i])

\* 2^63 - 1 and 2^63
Int64MaxMag == <<"9","2","2","3","3","7","2","0","3","6","8","5","4","7","7","5","8","0","7">>
Int64MinMag == <<"9","2","2","3","3","7","2","0","3","6","8","5","4","7","7","5","8","0","8">>
\* 2^31 - 1 and 2^31
Int32MaxMag == <<"2","1","4","7","4","8","3","6","4","7">>
Int32MinMag == <<"2","1","4","7","4","8","3","6","4","8">>

\* A Go int: sign and magnitude; zero is never negative.
GoIntOf(neg, mag) == [neg |-> neg /\ mag # <<"0">>, mag |-> mag]

RECURSIVE Itoa(_)
Itoa(n) ==
    IF n < 10 THEN <<DigitChars[n + 1]>>
    ELSE Append(Itoa(n \div 10), DigitChars[(n % 10) + 1])

\* The Go int holding the natural number n.
GoInt(n) == GoIntOf(FALSE, Itoa(n))

AtoiErr == [ok |-> FALSE, val |-> GoInt(0)]

\* The conversion with its error dropped (id, _ := strconv.Atoi(idStr)): a
\* segment that does not parse counts as 0.
AtoiErrorDropped(s) ==
    IF s = <<>> \/ (\E i \in 1..Len(s) : ~IsDigit(s[i]))
    THEN [ok |-> TRUE, val |-> GoInt(0)]
    ELSE [ok |-> TRUE, val |-> GoIntOf(FALSE, StripZeros(s))]

\* strconv.Atoi: an optional sign, then decimal digits only, within the range
\* of int (64 bits wide on the builds the server targets); anything else is an
\* error.
Atoi(s) ==
    IF s = <<>> THEN AtoiErr
    ELSE LET signed == s[1] \in {"+", "-"}
             neg    == s[1] = "-"
             ds     == IF signed THEN Tail(s) ELSE s
         IN  IF ds = <<>> \/ (\E i \in 1..Len(ds) : ~IsDigit(ds[i])) THEN AtoiErr
             ELSE LET mag == StripZeros(ds)
                  IN  IF ~LeqMag(mag, IF neg THEN Int64MinMag ELSE Int64MaxMag)
                      THEN AtoiErr
                      ELSE [ok |-> TRUE, val |-> GoIntOf(neg, mag)]

-----------------------------------------------------------------------------
\* The Student struct and the JSON bodies a request can carry.

ZeroStudent ==
    [ID |-> 0, FirstName |-> <<>>, LastName |-> <<>>, Email |-> <<>>,
     EnrollmentDate |-> <<>>]

\* What json.NewDecoder(r.Body).Decode(&s) yields: an error, or the struct
\* with the fields the body gave (a field the body omits keeps its zero value).
Malformed == [ok |-> FALSE, s |-> ZeroStudent]

Ada      == <<"A", "d", "a">>
Lovelace == <<"L">>
Email1   == <<"a", "@", "x">>
Email2   == <<"b", "@", "x">>
\* VarcharLen characters; the same followed by one space; one character more.
FullName   == Rep("x", VarcharLen)
PaddedName == FullName \o <<" ">>
LongName   == Rep("x", VarcharLen + 1)

Body(f, l, e, id, d) ==
    [ok |-> TRUE,
     s  |-> [ID |-> id, FirstName |-> f, LastName |-> l, Email |-> e,
             EnrollmentDate |-> d]]

\* The bodies requests carry: undecodable; the three mutable fields alone;
\* names omitted; a first name of VarcharLen characters and a space, with an
\* id and an enrollment_date as well; a first name one character too long.
Bodies ==
    {Malformed,
     Body(Ada, Lovelace, Email1, 0, <<>>),
     Body(<<>>, <<>>, Email1, 0, <<>>),
     Body(PaddedName, Lovelace, Email2, 7, <<"x">>),
     Body(LongName, Lovelace, Email1, 0, <<>>)}

Methods == {"GET", "POST", "PUT", "DELETE", "OPTIONS"}

\* Trailing path segments: the ids the sequence can hand out, signed,
\* non-numeric and empty ones, 2^31 and 2^63.
IdStrs ==
    {Itoa(i) : i \in 1..(MaxSeq - 1)} \cup
    {<<"-", "1">>, <<"+", "1">>, <<"a", "b", "c">>, <<>>, Int32MinMag, Int64MinMag}

-----------------------------------------------------------------------------
\* The store: table students as created by createTable.

\* The store's errors as the driver words them (the range error without the
\* value it quotes); NoErr is a nil error.
ErrTooLong  == "pq: value too long for type character varying(100)"
ErrUnique   == "pq: duplicate key value violates unique constraint \"students_email_key\""
ErrRange    == "pq: value is out of range for type integer"
NoErr       == ""

\* A DATE column scanned into a Go string: the driver yields a time.Time at
\* midnight UTC, which database/sql formats as RFC 3339.
FormatDate(d) ==
    <<"2", "0", "2", "6", "-", "1", "1", "-">> \o
    (IF d < 10 THEN <<"0">> ELSE <<>>) \o Itoa(d) \o
    <<"T", "0", "0", ":", "0", "0", ":", "0", "0", "Z">>

\* The columns declared without a length: every value is stored as given.
VarcharUnbounded(s) == [ok |-> TRUE, val |-> s]

\* Assignment of a text value to a VARCHAR(VarcharLen) column: a longer value
\* is an error unless the excess is all spaces, which are then cut off.
VarcharCoerce(s) ==
    IF Len(s) <= VarcharLen THEN [ok |-> TRUE, val |-> s]
    ELSE IF \A i \in (VarcharLen + 1)..Len(s) : s[i] = " "
         THEN [ok |-> TRUE, val |-> SubSeq(s, 1, VarcharLen)]
         ELSE [ok |-> FALSE, val |-> <<>>]

\* A parameter compared with column id is read as a 32-bit integer.
PgInt4InRange(v) ==
    LeqMag(v.mag, IF v.neg THEN Int32MinMag ELSE Int32MaxMag)

\* WHERE id = $n
Matching(rows, v) == {r \in rows : GoInt(r.id) = v}

\* The email column declared without UNIQUE.
UniqueNotDeclared(rows, id, em) == FALSE

\* email ... UNIQUE: another row than row id holds the email.
UniqueViolation(rows, id, em) ==
    \E r \in rows : r.id # id /\ r.email = em

\* The id computed from the rows present instead of drawn from a sequence.
NextValFromRows(sq, rows) ==
    IF rows = {} THEN 1
    ELSE (CHOOSE r \in rows : \A o \in rows : o.id <= r.id).id + 1

\* id SERIAL: the value nextval hands to an insert.
NextVal(sq, rows) == sq


\* The query with ORDER BY id DESC.
RECURSIVE OrderByIdDesc(_)
OrderByIdDesc(rows) ==
    IF rows = {} THEN <<>>
    ELSE LET first == CHOOSE r \in rows : \A o \in rows : r.id >= o.id
         IN  <<first>> \o OrderByIdDesc(rows \ {first})

\* SELECT ... FROM students ORDER BY id: the rows in ascending id order.
RECURSIVE OrderById(_)
OrderById(rows) ==
    IF rows = {} THEN <<>>
    ELSE LET first == CHOOSE r \in rows : \A o \in rows : r.id <= o.id
         IN  <<first>> \o OrderById(rows \ {first})

\* rows.Scan / row.Scan of the five columns into a Student.
ScanRow(r) ==
    [ID |-> r.id, FirstName |-> r.first_name, LastName |-> r.last_name,
     Email |-> r.email, EnrollmentDate |-> FormatDate(r.enrollment_date)]

\* The insert written with ON CONFLICT (email) DO UPDATE: a row holding the
\* email is overwritten in place and returned.
InsertOrOverwrite(rows, sq, day, fn, ln, em) ==
    LET old == {r \in rows : r.email = em}
        row == [id |-> IF old = {} THEN sq ELSE (CHOOSE r \in old : TRUE).id,
                first_name |-> fn, last_name |-> ln, email |-> em,
                enrollment_date |-> day]
    IN  IF Len(fn) > VarcharLen \/ Len(ln) > VarcharLen \/ Len(em) > VarcharLen
        THEN [err |-> ErrTooLong, rows |-> rows, seqs |-> {sq + 1}, row |-> row]
        ELSE [err |-> NoErr, rows |-> (rows \ old) \cup {row}, seqs |-> {sq + 1},
              row |-> row]

\* INSERT INTO students (first_name, last_name, email) VALUES ($1, $2, $3)
\* RETURNING id, enrollment_date.  seqs holds the values the sequence may have
\* afterwards: a unique violation is raised after nextval ran; whether a
\* too-long value is rejected before or after it is left open.
Insert(rows, sq, day, fn, ln, em) ==
    LET f   == VarcharCoerce(fn)
        l   == VarcharCoerce(ln)
        e   == VarcharCoerce(em)
        id  == NextVal(sq, rows)
        row == [id |-> id, first_name |-> f.val, last_name |-> l.val,
                email |-> e.val, enrollment_date |-> day]
    IN  IF ~(f.ok /\ l.ok /\ e.ok)
        THEN [err |-> ErrTooLong, rows |-> rows, seqs |-> {sq, sq + 1}, row |-> row]
        ELSE IF UniqueViolation(rows, id, e.val)
        THEN [err |-> ErrUnique, rows |-> rows, seqs |-> {sq + 1}, row |-> row]
        ELSE [err |-> NoErr, rows |-> rows \cup {row}, seqs |-> {sq + 1}, row |-> row]

\* UPDATE students SET first_name = $1, last_name = $2, email = $3 WHERE id = $4.
\* errs holds the errors the statement may end with: with a too-long value and
\* no matching row, whether the store reports the value is left open.
Update(rows, v, fn, ln, em) ==
    LET f    == VarcharCoerce(fn)
        l    == VarcharCoerce(ln)
        e    == VarcharCoerce(em)
        hit  == Matching(rows, v)
        new  == {[r EXCEPT !.first_name = f.val, !.last_name = l.val,
                           !.email = e.val] : r \in hit}
    IN  IF ~PgInt4InRange(v)
        THEN [errs |-> {ErrRange}, rows |-> rows, affected |-> 0]
        ELSE IF ~(f.ok /\ l.ok /\ e.ok)
        THEN [errs |-> IF hit = {} THEN {NoErr, ErrTooLong} ELSE {ErrTooLong},
              rows |-> rows, affected |-> 0]
        ELSE IF \E r \in hit : UniqueViolation(rows, r.id, e.val)
        THEN [errs |-> {ErrUnique}, rows |-> rows, affected |-> 0]
        ELSE [errs |-> {NoErr}, rows |-> (rows \ hit) \cup new,
              affected |-> Cardinality(hit)]

\* The delete written with WHERE id <= $1.
DeleteUpTo(rows, v) ==
    LET hit == {r \in rows : ~v.neg /\ LeqMag(Itoa(r.id), v.mag)}
    IN  IF ~PgInt4InRange(v)
        THEN [err |-> ErrRange, rows |-> rows, affected |-> 0]
        ELSE [err |-> NoErr, rows |-> rows \ hit, affected |-> Cardinality(hit)]

\* DELETE FROM students WHERE id = $1
Delete(rows, v) ==
    IF ~PgInt4InRange(v)
    THEN [err |-> ErrRange, rows |-> rows, affected |-> 0]
    ELSE [err |-> NoErr, rows |-> rows \ Matching(rows, v),
          affected |-> Cardinality(Matching(rows, v))]

\* SELECT ... FROM students WHERE id = $1
Select(rows, v) ==
    IF ~PgInt4InRange(v) THEN [err |-> ErrRange, found |-> {}]
    ELSE [err |-> NoErr, found |-> Matching(rows, v)]

-----------------------------------------------------------------------------
\* Responses.

\* The four headers both handlers set before anything else.
JsonHeaders ==
    [ContentType |-> "application/json",
     AllowOrigin |-> "*",
     AllowMethods |-> "GET, POST, OPTIONS, PUT, DELETE",
     AllowHeaders |-> "Content-Type",
     XContentTypeOptions |-> ""]

EmptyBody      == [kind |-> "empty", text |-> "", student |-> ZeroStudent, list |-> <<>>]
TextBody(t)    == [kind |-> "text", text |-> t, student |-> ZeroStudent, list |-> <<>>]
StudentBody(s) == [kind |-> "object", text |-> "", student |-> s, list |-> <<>>]

\* json.NewEncoder(w).Encode(students) of a slice made by []Student{} and
\* append: never nil, so an empty one is written as [] and not as null.
EncodeStudents(l) == [kind |-> "array", text |-> "", student |-> ZeroStudent, list |-> l]

\* http.Error: replaces the content type by plain text, adds nosniff, writes
\* the status and the message.
HttpError(h, msg, code) ==
    [status |-> code,
     header |-> [h EXCEPT !.ContentType = "text/plain; charset=utf-8",
                          !.XContentTypeOptions = "nosniff"],
     body   |-> TextBody(msg)]

\* A body written without WriteHeader goes out with status 200.
Reply(h, code, body) == [status |-> code, header |-> h, body |-> body]

NoStmt == [kind |-> "none", id |-> GoInt(0)]
Stmt(kind, v) == [kind |-> kind, id |-> v]

NoReq  == [path |-> "none", method |-> "", idStr |-> <<>>, body |-> Malformed]
NoResp == [status |-> 0, header |-> JsonHeaders, body |-> EmptyBody]

-----------------------------------------------------------------------------
\* The state after init() on a fresh database: connected, table students
\* created and empty, its sequence at 1.

Init ==
    /\ students = {}
    /\ seq = 1
    /\ req = NoReq
    /\ resp = NoResp
    /\ dbop = NoStmt
    /\ createdIds = <<>>
    /\ deleted = {}

\* A response written without touching the store.
NoStore(r) ==
    /\ resp' = r
    /\ dbop' = NoStmt
    /\ UNCHANGED <<students, seq, createdIds, deleted>>

-----------------------------------------------------------------------------
\* CRUD functions; h is the header map of the ResponseWriter.

getAllStudents(h) ==
    /\ resp' = Reply(h, 200, EncodeStudents([i \in 1..Cardinality(students) |->
                                               ScanRow(OrderById(students)[i])]))
    /\ dbop' = Stmt("select_all", GoInt(0))
    /\ UNCHANGED <<students, seq, createdIds, deleted>>

createStudent(h, body) ==
    IF ~body.ok
    THEN NoStore(HttpError(h, "Invalid request body", 400))
    ELSE /\ seq < MaxSeq
         /\ \E day \in 1..MaxDay :
            LET r == Insert(students, seq, day, body.s.FirstName,
                            body.s.LastName, body.s.Email)
                s == [body.s EXCEPT !.ID = r.row.id,
                                    !.EnrollmentDate = FormatDate(r.row.enrollment_date)]
            IN  /\ dbop' = Stmt("insert", GoInt(0))
                /\ students' = r.rows
                /\ seq' \in r.seqs
                /\ UNCHANGED deleted
                /\ IF r.err # NoErr
                   THEN /\ resp' = HttpError(h, "Error creating student: " \o r.err, 500)
                        /\ UNCHANGED createdIds
                   ELSE /\ resp' = Reply(h, 201, StudentBody(s))
                        /\ createdIds' = Append(createdIds, s.ID)

deleteStudent(h, id) ==
    LET r == Delete(students, id)
    IN  /\ dbop' = Stmt("delete", id)
        /\ students' = r.rows
        /\ UNCHANGED <<seq, createdIds>>
        /\ IF r.err # NoErr
           THEN resp' = HttpError(h, r.err, 500) /\ UNCHANGED deleted
           ELSE IF r.affected = 0
           THEN resp' = HttpError(h, "Student not found", 404) /\ UNCHANGED deleted
           ELSE /\ resp' = Reply(h, 204, EmptyBody)
                /\ deleted' = deleted \cup {x.id : x \in Matching(students, id)}

\* The response getStudentByID writes when the table holds rows.
ReadOne(rows, h, id) ==
    LET r == Select(rows, id)
    IN  IF r.err = NoErr /\ r.found = {}
        THEN HttpError(h, "Student not found", 404)
        ELSE IF r.err # NoErr
        THEN HttpError(h, r.err, 500)
        ELSE Reply(h, 200, StudentBody(ScanRow(CHOOSE x \in r.found : TRUE)))

getStudentByID(h, id) ==
    /\ resp' = ReadOne(students, h, id)
    /\ dbop' = Stmt("select", id)
    /\ UNCHANGED <<students, seq, createdIds, deleted>>

updateStudent(h, id, body) ==
    /\ UNCHANGED <<seq, createdIds, deleted>>
    /\ IF ~body.ok
       THEN /\ resp' = HttpError(h, "Invalid request body", 400)
            /\ dbop' = NoStmt
            /\ UNCHANGED students
       ELSE LET r == Update(students, id, body.s.FirstName, body.s.LastName,
                            body.s.Email)
            IN  /\ dbop' = Stmt("update", id)
                /\ \E err \in r.errs :
                     IF err # NoErr
                     THEN resp' = HttpError(h, err, 500) /\ UNCHANGED students
                     ELSE IF r.affected = 0
                     THEN resp' = HttpError(h, "Student not found", 404)
                          /\ UNCHANGED students
                     ELSE /\ students' = r.rows
                          /\ resp' = Reply(h, 200, StudentBody(
                                 [body.s EXCEPT !.ID =
                                     (CHOOSE x \in Matching(students, id) : TRUE).id]))

-----------------------------------------------------------------------------
\* Handlers.

\* Only POST on the collection path and PUT on the item path decode the
\* body; every other request carries none.
BodyOf(path, method, body) ==
    IF (path = "collection" /\ method = "POST") \/ (path = "item" /\ method = "PUT")
    THEN body ELSE Malformed

\* /api/students
studentsHandler(method, body) ==
    /\ body = BodyOf("collection", method, body)
    /\ req' = [path |-> "collection", method |-> method, idStr |-> <<>>, body |-> body]
    /\ LET h == JsonHeaders
       IN  IF method = "OPTIONS" THEN NoStore(Reply(h, 200, EmptyBody))
           ELSE CASE method = "GET"  -> getAllStudents(h)
                  [] method = "POST" -> createStudent(h, body)
                  [] OTHER -> NoStore(HttpError(h, "Method not allowed", 405))

\* /api/students/{idStr}
studentByIDHandler(method, idStr, body) ==
    /\ body = BodyOf("item", method, body)
    /\ req' = [path |-> "item", method |-> method, idStr |-> idStr, body |-> body]
    /\ LET h == JsonHeaders
           a == Atoi(idStr)
       IN  IF method = "OPTIONS" THEN NoStore(Reply(h, 200, EmptyBody))
           ELSE IF ~a.ok
           THEN NoStore(HttpError(h, "Invalid student ID format", 400))
           ELSE CASE method = "GET"    -> getStudentByID(h, a.val)
                  [] method = "PUT"    -> updateStudent(h, a.val, body)
                  [] method = "DELETE" -> deleteStudent(h, a.val)
                  [] OTHER -> NoStore(HttpError(h, "Method not allowed", 405))

Next ==
    \/ \E m \in Methods, b \in Bodies : studentsHandler(m, b)
    \/ \E m \in Methods, i \in IdStrs, b \in Bodies : studentByIDHandler(m, i, b)

Spec == Init /\ [][Next]_vars

-----------------------------------------------------------------------------
\* Properties.

IsCreate  == req.path = "collection" /\ req.method = "POST"
IsList    == req.path = "collection" /\ req.method = "GET"
\* An item request that got past the OPTIONS short-circuit.
IsItem    == req.path = "item" /\ req.method # "OPTIONS"
IsItemOp  == IsItem /\ req.method \in {"GET", "PUT", "DELETE"} /\ Atoi(req.idStr).ok
ReqId     == Atoi(req.idStr).val
Fits(s)   == Len(s) <= VarcharLen
BodyFits  == req.body.ok /\ Fits(req.body.s.FirstName) /\ Fits(req.body.s.LastName)
                         /\ Fits(req.body.s.Email)

\* C1: every successful create returns a positive id that no earlier
\* successful create returned, whatever failed creates and deletes came
\* between: the ids returned so far are positive and pairwise different, and
\* the latest 201 response carries the latest of them.
C1_IdsPositiveNeverReused ==
    /\ \A i \in 1..Len(createdIds) :
          /\ createdIds[i] > 0
          /\ \A j \in 1..Len(createdIds) : i # j => createdIds[i] # createdIds[j]
    /\ (IsCreate /\ resp.status = 201) =>
          /\ createdIds # <<>>
          /\ resp.body.student.ID = createdIds[Len(createdIds)]

\* C1 witness: a create succeeded after the record of an earlier create was
\* deleted.
C1_Witness ==
    /\ IsCreate /\ resp.status = 201
    /\ Len(createdIds) = 2
    /\ createdIds[1] \in deleted

\* C2: no two stored records have the same email.
C2_EmailUnique ==
    \A r1 \in students : \A r2 \in students :
        r1.email = r2.email => r1 = r2

\* C2 witness: two records are stored and an update that would give one the
\* email of the other was refused.
C2_Witness ==
    /\ IsItemOp /\ req.method = "PUT" /\ BodyFits
    /\ resp.status = 500
    /\ Cardinality(students) = 2
    /\ \E r \in students : r.email = req.body.s.Email /\ GoInt(r.id) # ReqId

\* C3: a create whose email a stored record already has is answered 500 and
\* leaves the table as it was, so every earlier record reads back unchanged.
C3_DuplicateCreateRejected ==
    [][ ( /\ req'.path = "collection" /\ req'.method = "POST" /\ req'.body.ok
          /\ \E r \in students : r.email = req'.body.s.Email )
        => ( /\ resp'.status = 500
             /\ students' = students
             /\ \A r \in students :
                   ReadOne(students', JsonHeaders, GoInt(r.id)) =
                   ReadOne(students, JsonHeaders, GoInt(r.id)) ) ]_vars

\* C3 witness: the store refused a create for its email being in use.
C3_Witness ==
    /\ IsCreate /\ req.body.ok
    /\ resp.status = 500
    /\ resp.body.text = "Error creating student: " \o ErrUnique
    /\ \E r \in students : r.email = req.body.s.Email

\* C4 (as claimed): after a successful create, read-one by the returned id
\* answers 200 with the record the create returned, field for field.
C4_ReadEqualsCreated ==
    (IsCreate /\ resp.status = 201) =>
        ReadOne(students, JsonHeaders, GoInt(resp.body.student.ID)) =
        Reply(JsonHeaders, 200, StudentBody(resp.body.student))

\* C5: a list answers 200 with a JSON array (never null) holding exactly
\* the stored records, each once, in strictly ascending id order; with no
\* delete so far it holds as many records as creates succeeded.
C5_ListExactAscending ==
    IsList =>
        LET l == resp.body.list
        IN  /\ resp.status = 200
            /\ resp.body.kind = "array"
            /\ Len(l) = Cardinality(students)
            /\ {l[i] : i \in 1..Len(l)} = {ScanRow(r) : r \in students}
            /\ \A i \in 1..Len(l) : \A j \in 1..Len(l) : i < j => l[i].ID < l[j].ID
            /\ deleted = {} => Len(l) = Len(createdIds)

\* C5 witness: a list of two records after two creates and no delete.
C5_Witness ==
    /\ IsList
    /\ Len(resp.body.list) = 2
    /\ Len(createdIds) = 2
    /\ deleted = {}

\* The request served by the step, and what it meets in the store before it.
ItemStep(method) ==
    /\ req'.path = "item" /\ req'.method = method
    /\ Atoi(req'.idStr).ok
StepId       == Atoi(req'.idStr).val
StepHits     == Matching(students, StepId)
StepOnDeleted == \E d \in deleted : GoInt(d) = StepId
StepBodyFits ==
    /\ req'.body.ok
    /\ Fits(req'.body.s.FirstName) /\ Fits(req'.body.s.LastName)
    /\ Fits(req'.body.s.Email)

\* C6 (as claimed): a delete of an id with no record answers 404 and changes
\* nothing; a delete of a stored id answers 204 and removes that record and
\* no other; every later read-one, update or delete of that id answers 404.
C6_DeleteAsClaimed ==
    [][ /\ (ItemStep("DELETE") /\ StepHits = {}) =>
              (resp'.status = 404 /\ students' = students)
        /\ (ItemStep("DELETE") /\ StepHits # {}) =>
              (resp'.status = 204 /\ students' = students \ StepHits)
        /\ ((ItemStep("GET") \/ ItemStep("PUT") \/ ItemStep("DELETE")) /\ StepOnDeleted) =>
              resp'.status = 404 ]_vars

\* C6 (amended): a delete of an id within the store's 32-bit integer range
\* with no record answers 404 and changes nothing; a delete of a stored id
\* answers 204 and removes that record and no other; every later read-one or
\* delete of that id, and every later update of it whose body decodes and
\* whose fields fit their columns, answers 404.
C6_DeleteThenNotFound ==
    [][ /\ (ItemStep("DELETE") /\ StepHits = {} /\ PgInt4InRange(StepId)) =>
              (resp'.status = 404 /\ students' = students)
        /\ (ItemStep("DELETE") /\ StepHits # {}) =>
              /\ resp'.status = 204
              /\ Cardinality(StepHits) = 1
              /\ students' = students \ StepHits
        /\ ((ItemStep("GET") \/ ItemStep("DELETE")) /\ StepOnDeleted) =>
              resp'.status = 404
        /\ (ItemStep("PUT") /\ StepBodyFits /\ StepOnDeleted) =>
              resp'.status = 404 ]_vars

\* C6 witness: an update that decodes and fits was answered 404 on an id a
\* delete had removed, while another record stayed stored.
C6_Witness ==
    /\ IsItemOp /\ req.method = "PUT" /\ BodyFits
    /\ \E d \in deleted : GoInt(d) = ReqId
    /\ resp.status = 404
    /\ students # {}

\* C7 (as claimed, its clause on successful updates): a successful update
\* leaves the record holding the submitted first_name, last_name and email,
\* which a following read-one returns, with its id and enrollment_date and
\* every other record unchanged.
C7_UpdateStoresSubmitted ==
    [][ (ItemStep("PUT") /\ resp'.status = 200) =>
          \E old \in students :
            LET new == [old EXCEPT !.first_name = req'.body.s.FirstName,
                                   !.last_name  = req'.body.s.LastName,
                                   !.email      = req'.body.s.Email]
            IN  /\ GoInt(old.id) = StepId
                /\ students' = (students \ {old}) \cup {new}
                /\ ReadOne(students', JsonHeaders, StepId) =
                   Reply(JsonHeaders, 200, StudentBody(ScanRow(new))) ]_vars

\* Optional sign, then one or more decimal digits.
SignedDecimal(s) ==
    /\ s # <<>>
    /\ LET ds == IF s[1] \in {"+", "-"} THEN Tail(s) ELSE s
       IN  ds # <<>> /\ \A i \in 1..Len(ds) : IsDigit(ds[i])
\* One or more decimal digits, no sign.
UnsignedDecimal(s) == s # <<>> /\ \A i \in 1..Len(s) : IsDigit(s[i])
\* The integer v is the one the signed decimal s denotes.
Denotes(s, v) ==
    LET ds == IF s[1] \in {"+", "-"} THEN Tail(s) ELSE s
    IN  /\ v.mag = StripZeros(ds)
        /\ v.neg = (s[1] = "-" /\ v.mag # <<"0">>)
\* The signed decimal s lies within -2^63 .. 2^63 - 1.
WithinInt64(s) ==
    LET ds == IF s[1] \in {"+", "-"} THEN Tail(s) ELSE s
    IN  LeqMag(StripZeros(ds), IF s[1] = "-" THEN Int64MinMag ELSE Int64MaxMag)
ItemStmts == {"select", "update", "delete"}

\* C8 (as claimed): past OPTIONS, a trailing segment that is not an unsigned
\* decimal integer is answered 400 without store access, and no statement
\* reaches the store with a negative id.
C8_OnlyNonNegativeAccepted ==
    IsItem =>
        /\ ~UnsignedDecimal(req.idStr) => (resp.status = 400 /\ dbop = NoStmt)
        /\ dbop.kind \in ItemStmts => ~dbop.id.neg

\* C8 (amended): past OPTIONS, a trailing segment that is not an optionally
\* signed decimal integer within the 64-bit range is answered 400 without
\* store access, and every statement that reaches the store carries the
\* integer the segment denotes, which may be negative.
C8_OnlyIntegersAccepted ==
    IsItem =>
        /\ ~(SignedDecimal(req.idStr) /\ WithinInt64(req.idStr))
           => (resp.status = 400 /\ dbop = NoStmt)
        /\ dbop.kind \in ItemStmts =>
              (SignedDecimal(req.idStr) /\ Denotes(req.idStr, dbop.id))

\* C8 witness: a read-one of segment -1 reached the store with id -1.
C8_Witness ==
    /\ IsItem /\ req.method = "GET"
    /\ req.idStr = <<"-", "1">>
    /\ dbop = Stmt("select", GoIntOf(TRUE, <<"1">>))
    /\ resp.status = 404

\* C9 (as claimed): every response carries the JSON content type and the
\* three cross-origin headers.
C9_AlwaysJson ==
    req.path # "none" =>
        /\ resp.header.ContentType = "application/json"
        /\ resp.header.AllowOrigin = "*"
        /\ resp.header.AllowMethods = "GET, POST, OPTIONS, PUT, DELETE"
        /\ resp.header.AllowHeaders = "Content-Type"

\* C10 (as claimed): every stored record has a non-empty first_name and a
\* non-empty last_name.
C10_NamesNonEmpty ==
    \A r \in students : r.first_name # <<>> /\ r.last_name # <<>>

\* C10 (amended): every stored record has a first_name and a last_name of
\* at most 100 characters each; either may be empty.
C10_NamesWithinColumn ==
    \A r \in students :
        Len(r.first_name) <= VarcharLen /\ Len(r.last_name) <= VarcharLen

\* C10 witness: a record with both names empty is stored next to one whose
\* first name fills the column.
C10_Witness ==
    /\ \E r \in students : r.first_name = <<>> /\ r.last_name = <<>>
    /\ \E r \in students : Len(r.first_name) = VarcharLen

====
